---- MODULE Spec2Model ----
(***************************************************************************)
(* jaxonnxruntime.onnx_ops: the Mod and Slice operator handlers            *)
(* (onnx_ops/mod.py, onnx_ops/slice.py).                                   *)
(*                                                                         *)
(* One graph node is modelled.  The engine (external) dispatches on the    *)
(* node's opset version to Handler.version_N(node, inputs), which runs     *)
(* _prepare and returns the translation function; the engine then calls    *)
(* the returned function on the inputs with attrs_dict as keywords.       *)
(*                                                                         *)
(* An operand is a record [shape, data]: data is the row-major flattening. *)
(* An outcome of a call is [kind, exc, val]: kind "value" with the result  *)
(* operand, or kind "error" with the name of the Python exception.         *)
(***************************************************************************)
EXTENDS Integers, Sequences, FiniteSets, TLC

VARIABLES
  op,          \* node.op_type: "Mod" or "Slice"
  opset,       \* the opset version the node was authored against
  attrs,       \* node.attrs: the raw attributes (a function name -> value)
  attrs_dict,  \* node.attrs_dict: the derived attributes
  inputs,      \* the node's input operands (a sequence of operands)
  jit,         \* TRUE: jax.jit traces the call (default); FALSE: jax_disable_jit
  fn,          \* the translation function the version method returned
  prep_runs,   \* how many times a version method prepared the node
  result       \* outcome of the last invocation of fn

vars == <<op, opset, attrs, attrs_dict, inputs, jit, fn, prep_runs, result>>

(***************************************************************************)
(* Bounds of the model.                                                    *)
(***************************************************************************)
MaxAbs == 5        \* Mod dividends range over -MaxAbs..MaxAbs
MaxDiv == 3        \* Mod divisors range over -MaxDiv..MaxDiv
MaxIdx == 3        \* Slice starts/ends range over -1..MaxIdx
MaxPrepRuns == 2   \* preparation runs per node
VecLens == {1, 2}  \* lengths of the 1-D operands

(***************************************************************************)
(* Operands and outcomes.                                                  *)
(***************************************************************************)
RECURSIVE Prod(_)
Prod(s) == IF s = <<>> THEN 1 ELSE Head(s) * Prod(Tail(s))

Tensor(shape, data) == [shape |-> shape, data |-> data]
Vec(seq) == Tensor(<<Len(seq)>>, seq)
NoTensor == Tensor(<<0>>, <<>>)

Ok(t) == [kind |-> "value", exc |-> "", val |-> t]
Err(e) == [kind |-> "error", exc |-> e, val |-> NoTensor]
NotCalled == [kind |-> "none", exc |-> "", val |-> NoTensor]

Abs(n) == IF n < 0 THEN -n ELSE n
EmptyDict == [k \in {} |-> 0]

\* dict.get(name, default)
DictGet(d, name, default) == IF name \in DOMAIN d THEN d[name] ELSE default

\* d[name] = value
DictSet(d, name, value) ==
  [k \in (DOMAIN d) \cup {name} |-> IF k = name THEN value ELSE d[k]]

(***************************************************************************)
(* mod.py: the translation function onnx_mod.                              *)
(***************************************************************************)
\* lax.rem on integers: the C remainder, whose sign follows the dividend.
lax_rem(x, y) == IF x < 0 THEN -((-x) % Abs(y)) ELSE x % Abs(y)

\* jnp.fmod on integer scalars: a zero divisor is replaced by one, then lax.rem.
jnp_fmod_scalar(x1, x2) ==
  LET y == IF x2 = 0 THEN 1 ELSE x2 IN lax_rem(x1, y)

\* Variant of jnp.mod that omits the sign adjustment.
jnp_mod_noadjust(x1, x2) ==
  LET y == IF x2 = 0 THEN 1 ELSE x2 IN lax_rem(x1, y)

\* jnp.mod (= jnp.remainder) on integer scalars: lax.rem, then the divisor is
\* added when the remainder is non-zero and its sign differs from the divisor's.
jnp_mod_scalar(x1, x2) ==
  LET y == IF x2 = 0 THEN 1 ELSE x2
      trunc_mod == lax_rem(x1, y)
      do_plus == ((trunc_mod < 0) # (y < 0)) /\ trunc_mod # 0
  IN IF do_plus THEN trunc_mod + y ELSE trunc_mod

\* Standard broadcast of two 1-D shapes; <<>> when they are incompatible.
broadcast_shapes(s1, s2) ==
  IF s1 = s2 THEN s1
  ELSE IF s1 = <<1>> THEN s2
  ELSE IF s2 = <<1>> THEN s1
  ELSE <<>>

\* Element i of a 1-D operand broadcast to length n.
BroadcastAt(t, i) == IF t.shape = <<1>> THEN t.data[1] ELSE t.data[i]

\* jnp.mod(a, b) / jnp.fmod(a, b) on 1-D operands.
jnp_mod(a, b) ==
  LET s == broadcast_shapes(a.shape, b.shape) IN
  IF s = <<>> THEN Err("ValueError")
  ELSE Ok(Tensor(s, [i \in 1..s[1] |->
                       jnp_mod_scalar(BroadcastAt(a, i), BroadcastAt(b, i))]))

jnp_fmod(a, b) ==
  LET s == broadcast_shapes(a.shape, b.shape) IN
  IF s = <<>> THEN Err("ValueError")
  ELSE Ok(Tensor(s, [i \in 1..s[1] |->
                       jnp_fmod_scalar(BroadcastAt(a, i), BroadcastAt(b, i))]))

\* onnx_mod: exactly two operands and the static flag fmod.
onnx_mod(input_args, fmod) ==
  IF Len(input_args) # 2 THEN Err("AssertionError")
  ELSE LET a == input_args[1]
           b == input_args[2]
       IN IF fmod = 0 THEN jnp_mod(a, b) ELSE jnp_fmod(a, b)

(***************************************************************************)
(* slice.py: the translation function onnx_slice.                          *)
(***************************************************************************)
\* Row-major stride of axis k of a shape.
AxisStride(shape, k) == Prod(SubSeq(shape, k + 1, Len(shape)))

RECURSIVE SumOver(_, _)
SumOver(f, n) == IF n = 0 THEN 0 ELSE f[n] + SumOver(f, n - 1)

\* The sub-array x[start[k] : limit[k] : strides[k]] on every axis k, for
\* 0 <= start[k] <= limit[k] <= x.shape[k] and strides[k] > 0.
Strided(x, start, limit, strides) ==
  LET r == Len(x.shape)
      outshape == [k \in 1..r |->
                     (limit[k] - start[k] + strides[k] - 1) \div strides[k]]
      src(i) == 1 + SumOver(
                  [k \in 1..r |->
                     (start[k]
                      + (((i - 1) \div AxisStride(outshape, k)) % outshape[k])
                        * strides[k])
                     * AxisStride(x.shape, k)], r)
  IN Tensor(outshape, [i \in 1..Prod(outshape) |-> x.data[src(i)]])

\* jax.lax.slice(operand, start_indices, limit_indices, strides).  The output
\* shape depends on the index values, so they must be concrete: under jax.jit
\* the vectors built inside the traced function are tracers and the call
\* raises a concretization error.  With concrete indices the primitive checks
\* them and raises TypeError; it neither clamps nor wraps.
lax_slice(operand, start_indices, limit_indices, strides, traced) ==
  IF traced THEN Err("ConcretizationTypeError")
  ELSE IF \E k \in 1..Len(operand.shape) :
            \/ start_indices[k] < 0
            \/ limit_indices[k] > operand.shape[k]
            \/ start_indices[k] > limit_indices[k]
            \/ strides[k] <= 0
       THEN Err("TypeError")
  ELSE Ok(Strided(operand, start_indices, limit_indices, strides))

\* jnp.zeros(n, dtype=int32), jnp.ones(n, dtype=int32)
jnp_zeros(n) == [k \in 1..n |-> 0]
jnp_ones(n) == [k \in 1..n |-> 1]

\* An index into an axis of size n as jnp normalises it: negative wraps once.
normalize_index(i, n) == IF i < 0 THEN i + n ELSE i

\* base.at[idx].set(vals) on 1-D int vectors: vals must broadcast to idx's
\* shape (else ValueError, ok = FALSE); an index out of bounds after
\* normalisation is dropped.  The inputs drawn below never repeat an index.
at_set(base, idx, vals) ==
  IF Len(vals) # Len(idx) /\ Len(vals) # 1
  THEN [ok |-> FALSE, v |-> base]
  ELSE [ok |-> TRUE,
        v |-> [k \in 1..Len(base) |->
                LET hits == {i \in 1..Len(idx) :
                               normalize_index(idx[i], Len(base)) = k - 1}
                IN IF hits = {} THEN base[k]
                   ELSE LET i == CHOOSE j \in hits : \A h \in hits : h <= j
                        IN IF Len(vals) = 1 THEN vals[1] ELSE vals[i]]]

\* Variant without the length assertion.
slice_lens_agree_unchecked(starts, ends) == TRUE

\* assert len(starts) == len(ends)
slice_lens_agree(starts, ends) == Len(starts.data) = Len(ends.data)

\* onnx_slice applied to its positional operands; traced is TRUE when jax.jit
\* traces the call.
onnx_slice(input_args, traced) ==
  IF Len(input_args) < 3 THEN Err("ValueError")   \* x, starts, ends = ...[:3]
  ELSE
    LET x == input_args[1]
        starts == input_args[2]
        ends == input_args[3]
        rank == Len(x.shape)
    IN
    IF ~slice_lens_agree(starts, ends) THEN Err("AssertionError")
    ELSE IF Len(input_args) < 3
    THEN \* axes = None; lax_start = starts; lax_end = ends; no lax_steps
         IF Len(starts.data) # rank THEN Err("AssertionError")
         ELSE Err("UnboundLocalError")
    ELSE IF Len(input_args) < 4 THEN Err("IndexError")  \* input_args[3]
    ELSE
      LET axes == input_args[4].data
          lax_start == at_set(jnp_zeros(rank), axes, starts.data)
          lax_end == at_set(x.shape, axes, ends.data)
      IN
      IF ~lax_start.ok \/ ~lax_end.ok THEN Err("ValueError")
      ELSE IF Len(input_args) > 4
      THEN LET steps == input_args[5].data
               lax_steps == at_set(jnp_ones(rank), axes, steps)
           IN IF ~lax_steps.ok THEN Err("ValueError")
              ELSE lax_slice(x, lax_start.v, lax_end.v, lax_steps.v, traced)
      ELSE Err("UnboundLocalError")   \* lax_steps was never assigned

(***************************************************************************)
(* Preparation: Handler._prepare and the version methods.                  *)
(***************************************************************************)
\* The keyword-only (static) parameters of a translation function.
KwParams(impl) == IF impl = "onnx_mod" THEN {"fmod"} ELSE {}

\* onnx_ops_utils.update_node_attrs_dict(node, onnx_jax_impl): every static
\* parameter of the implementation gets the raw attribute of that name (None
\* when the model does not declare it); other entries are kept.
update_node_attrs_dict(node_attrs, node_attrs_dict, impl) ==
  [k \in (DOMAIN node_attrs_dict) \cup KwParams(impl) |->
     IF k \in KwParams(impl) THEN DictGet(node_attrs, k, "None")
     ELSE node_attrs_dict[k]]

\* Variant of Mod._prepare whose default for fmod is 1.
Mod__prepare_default_one(node_attrs, node_attrs_dict) ==
  DictSet(update_node_attrs_dict(node_attrs, node_attrs_dict, "onnx_mod"),
          "fmod", DictGet(node_attrs, "fmod", 1))

\* Variant of Mod._prepare that adds the raw fmod to the entry already there.
Mod__prepare_accumulating(node_attrs, node_attrs_dict) ==
  DictSet(update_node_attrs_dict(node_attrs, node_attrs_dict, "onnx_mod"),
          "fmod", DictGet(node_attrs_dict, "fmod", 0)
                    + DictGet(node_attrs, "fmod", 0))

\* Mod._prepare: node.attrs_dict["fmod"] = node.attrs.get("fmod", 0)
Mod__prepare(node_attrs, node_attrs_dict) ==
  DictSet(update_node_attrs_dict(node_attrs, node_attrs_dict, "onnx_mod"),
          "fmod", DictGet(node_attrs, "fmod", 0))

\* Slice._prepare
Slice__prepare(node_attrs, node_attrs_dict) ==
  update_node_attrs_dict(node_attrs, node_attrs_dict, "onnx_slice")

\* The state change of a version method: _prepare, then return impl.
Prepared(new_dict, impl) ==
  /\ prep_runs < MaxPrepRuns
  /\ attrs_dict' = new_dict
  /\ fn' = impl
  /\ prep_runs' = prep_runs + 1
  /\ UNCHANGED <<op, opset, attrs, inputs, jit, result>>

Mod_version_10 ==
  /\ op = "Mod" /\ opset = 10
  /\ Prepared(Mod__prepare(attrs, attrs_dict), "onnx_mod")

Mod_version_13 ==
  /\ op = "Mod" /\ opset = 13
  /\ Prepared(Mod__prepare(attrs, attrs_dict), "onnx_mod")

Slice_version_1 ==
  /\ op = "Slice" /\ opset = 1
  /\ Prepared(Slice__prepare(attrs, attrs_dict), "onnx_slice")

Slice_version_10 ==
  /\ op = "Slice" /\ opset = 10
  /\ Prepared(Slice__prepare(attrs, attrs_dict), "onnx_slice")

Slice_version_11 ==
  /\ op = "Slice" /\ opset = 11
  /\ Prepared(Slice__prepare(attrs, attrs_dict), "onnx_slice")

Slice_version_13 ==
  /\ op = "Slice" /\ opset = 13
  /\ Prepared(Slice__prepare(attrs, attrs_dict), "onnx_slice")

(***************************************************************************)
(* Invocation of the returned function by the engine: the inputs are the   *)
(* positional arguments and attrs_dict supplies the keyword arguments.     *)
(***************************************************************************)
\* Variant of the invocation that records the call in attrs_dict.
Invoke_onnx_mod_caching ==
  /\ fn = "onnx_mod"
  /\ result' = onnx_mod(inputs, attrs_dict["fmod"])
  /\ attrs_dict' = DictSet(attrs_dict, "called", 1)
  /\ UNCHANGED <<op, opset, attrs, inputs, jit, fn, prep_runs>>

Invoke_onnx_mod ==
  /\ fn = "onnx_mod"
  /\ result' = onnx_mod(inputs, attrs_dict["fmod"])
  /\ UNCHANGED <<op, opset, attrs, attrs_dict, inputs, jit, fn, prep_runs>>

\* onnx_slice takes no keyword: a non-empty attrs_dict is a TypeError.
Invoke_onnx_slice ==
  /\ fn = "onnx_slice"
  /\ result' = IF DOMAIN attrs_dict = {} THEN onnx_slice(inputs, jit)
               ELSE Err("TypeError")
  /\ UNCHANGED <<op, opset, attrs, attrs_dict, inputs, jit, fn, prep_runs>>

(***************************************************************************)
(* The nodes and inputs the engine hands to the handlers.                  *)
(***************************************************************************)
Vecs(vals) == UNION {[1..n -> vals] : n \in VecLens}

FmodVals == {0, 1, 2}
ModAttrs == {EmptyDict} \cup {[fmod |-> f] : f \in FmodVals}
ModInputs ==
  {<<Vec(a), Vec(b)>> : a \in Vecs(-MaxAbs..MaxAbs), b \in Vecs(-MaxDiv..MaxDiv)}
  \cup {<<>>}
  \cup {<<Vec(<<a>>)>> : a \in -1..1}
  \cup {<<Vec(<<a>>), Vec(<<b>>), Vec(<<a>>)>> : a \in -1..1, b \in 1..2}

\* The array of a shape whose elements are 1, 2, 3, ... in row-major order.
Iota(shape) == Tensor(shape, [i \in 1..Prod(shape) |-> i])
SliceArrays == {Iota(<<2, 3>>)}
IdxVecs == Vecs(-1..MaxIdx)
StepVecs == Vecs({1, 2})
\* axes vectors that name no axis of x twice
AxesVecs(x) ==
  {a \in Vecs(0..(Len(x.shape) - 1)) :
     \A i, j \in 1..Len(a) :
        i # j => normalize_index(a[i], Len(x.shape))
                   # normalize_index(a[j], Len(x.shape))}

\* Opset 10/11/13: starts, ends, axes, steps are positional inputs.
SliceInputs ==
  LET same(n) == {v \in IdxVecs : Len(v) = n} IN
  UNION {
    {<<x, Vec(s)>>, <<x, Vec(s), Vec(e)>>}
    \cup {<<x, Vec(s), Vec(e), Vec(a)>> :
            a \in {v \in AxesVecs(x) : Len(v) = Len(s)}}
    \cup {<<x, Vec(s), Vec(e), Vec(a), Vec(t)>> :
            a \in {v \in AxesVecs(x) : Len(v) = Len(s)},
            t \in {v \in StepVecs : Len(v) = Len(s)}}
    : x \in SliceArrays, s \in IdxVecs, e \in IdxVecs}

\* Opset 1: starts, ends, axes are node attributes and x is the only input.
SliceV1Attrs(x) ==
  {[starts |-> s, ends |-> e, axes |-> a] :
     s \in IdxVecs, e \in IdxVecs, a \in AxesVecs(x)}

Init ==
  /\ \/ /\ op = "Mod"
        /\ opset \in {10, 13}
        /\ attrs \in ModAttrs
        /\ inputs \in ModInputs
        /\ jit = TRUE
     \/ /\ op = "Slice"
        /\ opset \in {10, 11, 13}
        /\ attrs = EmptyDict
        /\ inputs \in SliceInputs
        /\ jit \in BOOLEAN
     \/ /\ op = "Slice"
        /\ opset = 1
        /\ \E x \in SliceArrays :
             /\ inputs = <<x>>
             /\ attrs \in {r \in SliceV1Attrs(x) :
                             Len(r.starts) = Len(r.ends)
                             /\ Len(r.axes) = Len(r.starts)}
        /\ jit \in BOOLEAN
  /\ attrs_dict = EmptyDict
  /\ fn = "none"
  /\ prep_runs = 0
  /\ result = NotCalled

Next ==
  \/ Mod_version_10
  \/ Mod_version_13
  \/ Slice_version_1
  \/ Slice_version_10
  \/ Slice_version_11
  \/ Slice_version_13
  \/ Invoke_onnx_mod
  \/ Invoke_onnx_slice

Spec == Init /\ [][Next]_vars

(***************************************************************************)
(* Reference semantics used to state the properties.                       *)
(***************************************************************************)
Invoked == result.kind # "none"

\* floor(a / b) and trunc(a / b) for b # 0, by their defining inequalities.
FloorDiv(a, b) ==
  CHOOSE q \in -(Abs(a) + 1)..(Abs(a) + 1) :
    IF b > 0 THEN b * q <= a /\ a < b * q + b
    ELSE b * q >= a /\ a > b * q + b

TruncDiv(a, b) ==
  CHOOSE q \in -Abs(a)..Abs(a) :
    /\ Abs(q) * Abs(b) <= Abs(a)
    /\ Abs(a) < (Abs(q) + 1) * Abs(b)
    /\ q # 0 => ((q > 0) <=> ((a > 0) <=> (b > 0)))

\* The position of axis k (1-based) in axes, 0 when axes does not name it.
NamedAt(axes, k) ==
  IF \E i \in 1..Len(axes) : axes[i] = k - 1
  THEN CHOOSE i \in 1..Len(axes) : axes[i] = k - 1
  ELSE 0

\* x with axis axes[i] taken as starts[i]:ends[i]:steps[i] and every axis not
\* named in axes taken whole.
SubArray(x, starts, ends, axes, steps) ==
  LET r == Len(x.shape)
      at(k) == NamedAt(axes, k)
  IN Strided(x,
             [k \in 1..r |-> IF at(k) = 0 THEN 0 ELSE starts[at(k)]],
             [k \in 1..r |-> IF at(k) = 0 THEN x.shape[k] ELSE ends[at(k)]],
             [k \in 1..r |-> IF at(k) = 0 THEN 1 ELSE steps[at(k)]])

\* ONNX bound handling for a positive step on an axis of size d.
OnnxClamp(v, d) ==
  LET w == IF v < 0 THEN v + d ELSE v
  IN IF w < 0 THEN 0 ELSE IF w > d THEN d ELSE w

ClampedSubArray(x, starts, ends, axes, steps) ==
  LET d(i) == x.shape[axes[i] + 1]
      cs == [i \in 1..Len(axes) |-> OnnxClamp(starts[i], d(i))]
      ce == [i \in 1..Len(axes) |->
               IF OnnxClamp(ends[i], d(i)) < cs[i] THEN cs[i]
               ELSE OnnxClamp(ends[i], d(i))]
  IN SubArray(x, cs, ce, axes, steps)

\* starts/ends lie inside the axes they are applied to.
InRange(x, starts, ends, axes) ==
  /\ Len(starts) = Len(ends) /\ Len(starts) = Len(axes)
  /\ \A i \in 1..Len(axes) :
       /\ 0 <= starts[i] /\ starts[i] <= ends[i]
       /\ ends[i] <= x.shape[axes[i] + 1]

AllAxes(x) == [k \in 1..Len(x.shape) |-> k - 1]
Ones(n) == [k \in 1..n |-> 1]

(***************************************************************************)
(* Properties.                                                             *)
(***************************************************************************)
\* C1: for integers a, b with b # 0, Mod with fmod = 0 is a - b*floor(a/b)
\* (a non-zero result has the sign of b) and with any fmod # 0 is
\* a - b*trunc(a/b) (a non-zero result has the sign of a); Mod([5,-5],[3,3])
\* is [2,1] with fmod = 0 and [2,-2] with fmod = 1.
C1_ModSemantics ==
  (op = "Mod" /\ Invoked /\ Len(inputs) = 2) =>
    LET a == inputs[1]
        b == inputs[2]
        fmod == attrs_dict["fmod"]
        n == IF Len(a.data) > Len(b.data) THEN Len(a.data) ELSE Len(b.data)
    IN /\ (\A i \in 1..Len(b.data) : b.data[i] # 0) =>
            /\ result.kind = "value"
            /\ result.val.shape = <<n>>
            /\ \A i \in 1..n :
                 LET ai == BroadcastAt(a, i)
                     bi == BroadcastAt(b, i)
                     r == result.val.data[i]
                 IN IF fmod = 0
                    THEN /\ r = ai - bi * FloorDiv(ai, bi)
                         /\ r # 0 => ((r < 0) <=> (bi < 0))
                    ELSE /\ r = ai - bi * TruncDiv(ai, bi)
                         /\ r # 0 => ((r < 0) <=> (ai < 0))
       /\ (a.data = <<5, -5>> /\ b.data = <<3, 3>>) =>
            /\ fmod = 0 => result.val.data = <<2, 1>>
            /\ fmod = 1 => result.val.data = <<2, -2>>

C1_Witness ==
  /\ op = "Mod" /\ Invoked /\ Len(inputs) = 2
  /\ inputs[1].data = <<5, -5>> /\ inputs[2].data = <<3, 3>>
  /\ attrs_dict["fmod"] = 0
  /\ result = Ok(Vec(<<2, 1>>))

\* C2: a Slice call without steps returns what the same call returns with
\* all-ones steps; Slice([[1,2,3],[4,5,6]], starts=[1], ends=[3], axes=[1])
\* is [[2,3],[5,6]].
C2_StepsDefaultToOnes ==
  (op = "Slice" /\ Invoked /\ Len(inputs) = 4
     /\ InRange(inputs[1], inputs[2].data, inputs[3].data, inputs[4].data)) =>
    /\ result = onnx_slice(inputs \o <<Vec(Ones(Len(inputs[4].data)))>>, jit)
    /\ (inputs = <<Iota(<<2, 3>>), Vec(<<1>>), Vec(<<3>>), Vec(<<1>>)>>) =>
         result = Ok(Tensor(<<2, 2>>, <<2, 3, 5, 6>>))

\* C3: a Slice call with exactly x, starts, ends and len(starts) = rank(x)
\* returns x[starts[i]:ends[i]] on every axis i; with starts all 0 and ends
\* equal to x.shape it returns x.
C3_ThreeInputsDefaultAxes ==
  (op = "Slice" /\ Invoked /\ Len(inputs) = 3
     /\ Len(inputs[2].data) = Len(inputs[1].shape)
     /\ InRange(inputs[1], inputs[2].data, inputs[3].data, AllAxes(inputs[1]))) =>
    /\ result = Ok(SubArray(inputs[1], inputs[2].data, inputs[3].data,
                            AllAxes(inputs[1]), Ones(Len(inputs[1].shape))))
    /\ (inputs[2].data = jnp_zeros(Len(inputs[1].shape))
          /\ inputs[3].data = inputs[1].shape) => result = Ok(inputs[1])

\* C4: a Slice call with x, starts, ends, axes and steps (in range, positive
\* steps, distinct axes) returns the strided sub-array that takes axis
\* axes[k] as starts[k]:ends[k]:steps[k] and every other axis whole.
C4_FiveInputsStrided ==
  (op = "Slice" /\ Invoked /\ Len(inputs) = 5
     /\ InRange(inputs[1], inputs[2].data, inputs[3].data, inputs[4].data)
     /\ Len(inputs[5].data) = Len(inputs[4].data)
     /\ \A i \in 1..Len(inputs[5].data) : inputs[5].data[i] > 0) =>
    result = Ok(SubArray(inputs[1], inputs[2].data, inputs[3].data,
                         inputs[4].data, inputs[5].data))

\* C5: after Mod preparation attrs_dict["fmod"] is 0 when the raw attributes
\* carry no fmod and is the raw value when they do.
C5_FmodDefault ==
  (op = "Mod" /\ prep_runs >= 1) =>
    /\ "fmod" \in DOMAIN attrs_dict
    /\ attrs_dict["fmod"] = IF "fmod" \in DOMAIN attrs THEN attrs["fmod"] ELSE 0

C5_Witness ==
  /\ op = "Mod" /\ opset = 13 /\ prep_runs >= 1
  /\ "fmod" \notin DOMAIN attrs
  /\ attrs_dict["fmod"] = 0

\* C6: an opset-1 Slice node with starts, ends and axes as attributes and x as
\* its only input yields, after version_1 and invocation, what the same
\* starts, ends and axes yield as positional inputs.
C6_Version1Normalized ==
  (op = "Slice" /\ opset = 1 /\ Invoked) =>
    result = onnx_slice(<<inputs[1], Vec(attrs["starts"]), Vec(attrs["ends"]),
                          Vec(attrs["axes"])>>, jit)

\* C7: preparing a node a second or further time leaves attrs_dict as it was
\* and returns the same translation function.
C7_PrepareIdempotent ==
  [][(prep_runs >= 1 /\ prep_runs' = prep_runs + 1) =>
       (attrs_dict' = attrs_dict /\ fn' = fn)]_vars

C7_Witness ==
  /\ op = "Mod" /\ prep_runs = 2
  /\ "fmod" \in DOMAIN attrs /\ attrs["fmod"] = 2
  /\ attrs_dict = [fmod |-> 2]

\* C8: a Slice call with at least three inputs and len(starts) # len(ends),
\* and a Mod call with other than two inputs, fail on the arity assertion
\* without producing a result.
C8_ArityFailFast ==
  /\ (op = "Slice" /\ Invoked /\ Len(inputs) >= 3
        /\ Len(inputs[2].data) # Len(inputs[3].data)) =>
       result = Err("AssertionError")
  /\ (op = "Mod" /\ Invoked /\ Len(inputs) # 2) =>
       result = Err("AssertionError")

C8_Witness ==
  /\ op = "Slice" /\ Invoked /\ Len(inputs) = 5
  /\ Len(inputs[2].data) = 1 /\ Len(inputs[3].data) = 2
  /\ result = Err("AssertionError")

\* C9: on a named axis of size d a negative start or end v counts as v + d
\* and a start or end outside the axis is clamped, so the call returns the
\* clamped sub-array.  Stated for eager execution (jit disabled).
C9_BoundsClamped ==
  (op = "Slice" /\ Invoked /\ ~jit /\ Len(inputs) = 5
     /\ Len(inputs[2].data) = Len(inputs[3].data)) =>
    result = Ok(ClampedSubArray(inputs[1], inputs[2].data, inputs[3].data,
                                inputs[4].data, inputs[5].data))

\* C10: attrs_dict changes only in a preparation step and a prepared node
\* stays prepared; an invocation, whether it returns or fails, and a
\* preparation leave the raw attrs and the input operands unchanged.
C10_Frame ==
  [][/\ attrs' = attrs
     /\ inputs' = inputs
     /\ prep_runs' = prep_runs => attrs_dict' = attrs_dict
     /\ prep_runs' >= prep_runs
     /\ fn # "none" => fn' = fn]_vars

C10_Witness ==
  /\ op = "Mod" /\ prep_runs = 2
  /\ result.kind = "error"
  /\ attrs_dict = [fmod |-> 0]

\* The five-input call of C4 does return the strided sub-array when the call
\* is not traced.
EagerFiveInputsStrided == jit \/ C4_FiveInputsStrided

====
